---- MODULE Spec2Model ----
(***************************************************************************)
(* Model of the step-directory SQL migration engine of src/database.py.    *)
(*                                                                         *)
(* State: the data directory on disk (fs), the SQLite database file        *)
(* (tables, rows, the migration_history ledger), the module-global         *)
(* connection (_conn), and a record of the last public call (last).        *)
(* One action per public function: init, status, set, reset, close.        *)
(***************************************************************************)
EXTENDS Integers, Sequences, FiniteSets, TLC

VARIABLES
    fs,         \* the base data directory: [exists, entries]
    conn,       \* _conn is not None
    hasLedger,  \* table migration_history exists in the database file
    ledger,     \* rows of migration_history ordered by id: [filename, dir_prefix]
    tables,     \* user tables in sqlite_master order (creation order)
    rows,       \* rows of the user tables: <<table, key>>
    hist,       \* ledger snapshots left by the set calls since the last init/reset
    last        \* the last public call: what it was given, did and returned

vars == <<fs, conn, hasLedger, ledger, tables, rows, hist, last>>

----------------------------------------------------------------------------
(* Bounds of the model *)

\* primary keys used by the INSERT statements of the migration files: 1..MaxKey
MaxKey == 1
\* set() is called with target_step in 0..MaxStep
MaxStep == 10

----------------------------------------------------------------------------
(* Characters and Python's str ordering (by code point) *)

CharCode ==
    [c \in {"-", ".", "0", "1", "2", "_", "a", "b", "c", "d", "e", "g", "i",
            "l", "n", "q", "s", "t", "x", "y"} |->
        CASE c = "-" -> 45 [] c = "." -> 46
          [] c = "0" -> 48 [] c = "1" -> 49 [] c = "2" -> 50
          [] c = "_" -> 95
          [] c = "a" -> 97 [] c = "b" -> 98 [] c = "c" -> 99 [] c = "d" -> 100
          [] c = "e" -> 101 [] c = "g" -> 103 [] c = "i" -> 105
          [] c = "l" -> 108 [] c = "n" -> 110 [] c = "q" -> 113
          [] c = "s" -> 115 [] c = "t" -> 116 [] c = "x" -> 120
          [] c = "y" -> 121]

IsDigit(c) == CharCode[c] >= 48 /\ CharCode[c] <= 57

RECURSIVE CodeLess(_, _)
\* a < b for two sequences of code points (Python's str comparison)
CodeLess(a, b) ==
    IF a = <<>> THEN b # <<>>
    ELSE IF b = <<>> THEN FALSE
    ELSE IF Head(a) # Head(b) THEN Head(a) < Head(b)
    ELSE CodeLess(Tail(a), Tail(b))

Codes(s) == [i \in 1..Len(s) |-> CharCode[s[i]]]

\* a < b for two names (sequences of characters)
StrLess(a, b) == CodeLess(Codes(a), Codes(b))

\* os.path.join(directory, name) below the base directory, as code points
\* (47 is the path separator)
JoinPath(dir, name) == Codes(dir) \o <<47>> \o Codes(name)

----------------------------------------------------------------------------
(* Directory Scanner *)

RECURSIVE DigitRun(_)
\* the longest leading run of digits of a name
DigitRun(s) ==
    IF s # <<>> /\ IsDigit(Head(s)) THEN <<Head(s)>> \o DigitRun(Tail(s))
    ELSE <<>>

\* re.compile(r'^(\d+)_').match(item)
PatternMatch(item) ==
    LET d == DigitRun(item)
    IN  /\ Len(d) >= 1
        /\ Len(item) > Len(d)
        /\ item[Len(d) + 1] = "_"

RECURSIVE ToInt(_)
\* int(prefix) for a run of decimal digits
ToInt(d) ==
    IF d = <<>> THEN 0
    ELSE 10 * ToInt(SubSeq(d, 1, Len(d) - 1)) + (CharCode[d[Len(d)]] - 48)

StepOf(item) == ToInt(DigitRun(item))

\* directories compared by path alone
DirLessLexical(a, b) == StrLess(a, b)

\* (int, path) tuple comparison of sorted(dirs)
DirLess(a, b) ==
    \/ StepOf(a) < StepOf(b)
    \/ StepOf(a) = StepOf(b) /\ StrLess(a, b)

RECURSIVE SortDirs(_)
\* sorted(dirs), for a set of distinct directory names
SortDirs(S) ==
    IF S = {} THEN <<>>
    ELSE LET m == CHOOSE x \in S : \A y \in S \ {x} : DirLess(x, y)
         IN  <<m>> \o SortDirs(S \ {m})

RECURSIVE SortNames(_)
\* sorted(paths), for the distinct file names of one directory
SortNames(S) ==
    IF S = {} THEN <<>>
    ELSE LET m == CHOOSE x \in S : \A y \in S \ {x} : StrLess(x, y)
         IN  <<m>> \o SortNames(S \ {m})

\* get_all_data_directories: the names of the numbered subdirectories, sorted;
\* [] when the base directory does not exist
get_all_data_directories(base) ==
    IF ~base.exists THEN <<>>
    ELSE SortDirs({e.name : e \in {x \in base.entries : x.isdir /\ PatternMatch(x.name)}})

\* the directory entry of that name
Entry(base, name) == CHOOSE e \in base.entries : e.name = name

\* glob "*.sql": the name ends in .sql and is not a hidden file
IsSqlFile(name) ==
    /\ Len(name) >= 4
    /\ SubSeq(name, Len(name) - 3, Len(name)) = <<".", "s", "q", "l">>
    /\ name[1] # "."

\* get_sql_files_in_dir: the base names of the SQL files of a directory, sorted
get_sql_files_in_dir(base, dir) ==
    SortNames({f.name : f \in {x \in Entry(base, dir).files : IsSqlFile(x.name)}})

\* the statements of a file of a directory
Body(base, dir, filename) ==
    (CHOOSE f \in Entry(base, dir).files : f.name = filename).body

----------------------------------------------------------------------------
(* The SQLite connection as the sqlite3 module drives it *)

Range(q) == {q[i] : i \in 1..Len(q)}

\* The statements the migration files are made of: CREATE TABLE p / c (c.pid
\* REFERENCES p), INSERT of a row with a primary key, a statement SQLite
\* rejects, and the empty string between or after semicolons.
Create(t) == [k |-> "create", t |-> t, key |-> 0]
Insert(t, key) == [k |-> "insert", t |-> t, key |-> key]
Bogus == [k |-> "bogus", t |-> "", key |-> 0]
Blank == [k |-> "blank", t |-> "", key |-> 0]

NoError == [exc |-> "none", msg |-> ""]
Raised(exc, msg) == [exc |-> exc, msg |-> msg]

\* sqlite3's implicit BEGIN before a data-modifying statement when no
\* transaction is open; snap is what a rollback returns to
Begin(st) ==
    IF st.inTxn THEN st
    ELSE [st EXCEPT !.inTxn = TRUE, !.snap = [tables |-> st.tables, rows |-> st.rows]]

\* cursor.execute(statement): the connection afterwards and what was raised
Execute(st, s) ==
    CASE s.k = "create" ->
            IF s.t \in Range(st.tables)
            THEN [st |-> st, err |-> Raised("OperationalError", "already exists")]
            ELSE [st |-> [st EXCEPT !.tables = Append(@, s.t)], err |-> NoError]
      [] s.k = "insert" ->
            IF s.t \notin Range(st.tables) \/ (s.t = "c" /\ "p" \notin Range(st.tables))
            THEN [st |-> st, err |-> Raised("OperationalError", "no such table")]
            ELSE IF <<s.t, s.key>> \in st.rows
            THEN [st |-> Begin(st),
                  err |-> Raised("IntegrityError", "UNIQUE constraint failed")]
            ELSE IF s.t = "c" /\ <<"p", s.key>> \notin st.rows
            THEN [st |-> Begin(st),
                  err |-> Raised("IntegrityError", "FOREIGN KEY constraint failed")]
            ELSE [st |-> [Begin(st) EXCEPT !.rows = @ \cup {<<s.t, s.key>>}],
                  err |-> NoError]
      [] OTHER ->
            [st |-> st, err |-> Raised("OperationalError", "syntax error")]

\* conn.rollback(): statements run outside a transaction stay
Rollback(st) ==
    IF st.inTxn THEN st.snap ELSE [tables |-> st.tables, rows |-> st.rows]

\* only "already exists" is let through
ToleratedExistsOnly(err) == err.exc = "OperationalError" /\ err.msg = "already exists"

\* every sqlite3 error of a statement is let through
ToleratedAny(err) == err.exc # "none"

\* the two except clauses of the statement loop that print a warning and go on
Tolerated(err) ==
    \/ err.exc = "OperationalError" /\ err.msg = "already exists"
    \/ err.exc = "IntegrityError" /\ err.msg = "UNIQUE constraint failed"

RECURSIVE RunStatements(_, _, _, _)
\* the loop over sql_content.split(';'): the connection afterwards, the
\* statements executed with what each raised, and whether one re-raised
RunStatements(st, body, i, trace) ==
    IF i > Len(body) THEN [st |-> st, trace |-> trace, aborted |-> FALSE]
    ELSE IF body[i].k = "blank" THEN RunStatements(st, body, i + 1, trace)
    ELSE LET r == Execute(st, body[i])
             t == Append(trace, [idx |-> i, err |-> r.err])
         IN  IF r.err.exc = "none" \/ Tolerated(r.err)
             THEN RunStatements(r.st, body, i + 1, t)
             ELSE [st |-> r.st, trace |-> t, aborted |-> TRUE]

\* migration_history.filename without its UNIQUE constraint
NoUniqueConstraint(led, filename) == FALSE

\* the UNIQUE constraint on migration_history.filename
DuplicateFilename(led, filename) == \E i \in 1..Len(led) : led[i].filename = filename

\* apply_migration with INSERT OR REPLACE INTO migration_history: the row of
\* the same filename gives way to the new one
apply_migration_replace(db, filename, body, dir_prefix) ==
    LET st0 == [tables |-> db.tables, rows |-> db.rows, inTxn |-> FALSE,
                snap |-> [tables |-> db.tables, rows |-> db.rows]]
        r == RunStatements(st0, body, 1, <<>>)
        b == Begin(r.st)
    IN  IF r.aborted \/ ~db.hasLedger
        THEN [db |-> [db EXCEPT !.tables = Rollback(r.st).tables,
                                !.rows = Rollback(r.st).rows],
              ok |-> FALSE, trace |-> r.trace]
        ELSE [db |-> [db EXCEPT !.tables = b.tables, !.rows = b.rows,
                                !.ledger = Append(SelectSeq(@, LAMBDA x : x.filename # filename),
                                                  [filename |-> filename,
                                                   dir_prefix |-> dir_prefix])],
              ok |-> TRUE, trace |-> r.trace]

\* apply_migration with INSERT OR IGNORE INTO migration_history: a filename
\* the ledger already holds is passed over and the apply still succeeds
apply_migration_or_ignore(db, filename, body, dir_prefix) ==
    LET st0 == [tables |-> db.tables, rows |-> db.rows, inTxn |-> FALSE,
                snap |-> [tables |-> db.tables, rows |-> db.rows]]
        r == RunStatements(st0, body, 1, <<>>)
        b == Begin(r.st)
    IN  IF r.aborted \/ ~db.hasLedger
        THEN [db |-> [db EXCEPT !.tables = Rollback(r.st).tables,
                                !.rows = Rollback(r.st).rows],
              ok |-> FALSE, trace |-> r.trace]
        ELSE [db |-> [db EXCEPT !.tables = b.tables, !.rows = b.rows,
                                !.ledger = IF DuplicateFilename(@, filename) THEN @
                                           ELSE Append(@, [filename |-> filename,
                                                           dir_prefix |-> dir_prefix])],
              ok |-> TRUE, trace |-> r.trace]

\* apply_migration(conn, sql_file, dir_prefix) on database db: the database
\* afterwards, the value returned and the statements executed
apply_migration(db, filename, body, dir_prefix) ==
    LET st0 == [tables |-> db.tables, rows |-> db.rows, inTxn |-> FALSE,
                snap |-> [tables |-> db.tables, rows |-> db.rows]]
        r == RunStatements(st0, body, 1, <<>>)
        b == Begin(r.st)
        failed(st) == [db |-> [db EXCEPT !.tables = Rollback(st).tables,
                                        !.rows = Rollback(st).rows],
                       ok |-> FALSE, trace |-> r.trace]
    IN  IF r.aborted THEN failed(r.st)
        ELSE IF ~db.hasLedger \/ DuplicateFilename(db.ledger, filename) THEN failed(b)
        ELSE [db |-> [db EXCEPT !.tables = b.tables, !.rows = b.rows,
                                !.ledger = Append(@, [filename |-> filename,
                                                      dir_prefix |-> dir_prefix])],
              ok |-> TRUE, trace |-> r.trace]

\* get_applied_migrations: the ledger rows in id order
get_applied_migrations(db) == db.ledger

RECURSIVE DropTables(_, _)
\* the DROP TABLE loop of reset_database over the user tables in sqlite_master
\* order: dropping p deletes its rows, which the foreign key of c refuses while
\* c holds rows; each DROP is committed on its own
DropTables(todo, db) ==
    IF todo = <<>> THEN [db |-> db, raised |-> FALSE]
    ELSE LET t == Head(todo)
         IN  IF t = "p" /\ \E r \in db.rows : r[1] = "c"
             THEN [db |-> db, raised |-> TRUE]
             ELSE DropTables(Tail(todo),
                             [db EXCEPT !.tables = SelectSeq(@, LAMBDA x : x # t),
                                        !.rows = {r \in @ : r[1] # t}])

\* reset_database that leaves migration_history alone, as it leaves
\* sqlite_sequence, and relies on CREATE TABLE IF NOT EXISTS
reset_database_keep_history(db) ==
    LET d == DropTables(db.tables, db)
    IN  IF d.raised THEN d
        ELSE [db |-> [d.db EXCEPT !.hasLedger = TRUE], raised |-> FALSE]

\* reset_database(conn): migration_history, the first table of sqlite_master,
\* is dropped first; setup_migration_tracking recreates it empty when every
\* DROP went through
reset_database(db) ==
    LET d == DropTables(db.tables, [db EXCEPT !.hasLedger = FALSE, !.ledger = <<>>])
    IN  IF d.raised THEN d
        ELSE [db |-> [d.db EXCEPT !.hasLedger = TRUE], raised |-> FALSE]

----------------------------------------------------------------------------
(* Step Controller: init, status, set, reset, close *)

\* the database file as the connection sees it
DB == [tables |-> tables, rows |-> rows, hasLedger |-> hasLedger, ledger |-> ledger]

\* one invocation of the Applier, as the call log keeps it
Invocation(db, base, dir, filename, r) ==
    [filename |-> filename, dir |-> dir, body |-> Body(base, dir, filename),
     ok |-> r.ok, trace |-> r.trace, pre |-> db, post |-> r.db]

RECURSIVE ApplyAll(_, _, _, _, _, _)
\* "for sql_file in sql_files: apply_migration(...)" of init and reset
ApplyAll(db, base, dir, files, i, calls) ==
    IF i > Len(files) THEN [db |-> db, calls |-> calls]
    ELSE LET r == apply_migration(db, files[i], Body(base, dir, files[i]), dir)
         IN  ApplyAll(r.db, base, dir, files, i + 1,
                      Append(calls, Invocation(db, base, dir, files[i], r)))

\* next((dir_path for prefix, dir_path in data_dirs if prefix == 0), None)
Step0Dirs(data_dirs) == SelectSeq(data_dirs, LAMBDA d : StepOf(d) = 0)

\* applied_files = {filename: dir_prefix ...}: a later row replaces an earlier
\* one of the same filename
AppliedDir(applied, filename) ==
    LET I == {i \in 1..Len(applied) : applied[i].filename = filename}
    IN  applied[CHOOSE i \in I : \A j \in I : j <= i].dir_prefix

\* "filename in applied_files"
Recorded(applied, filename) == \E i \in 1..Len(applied) : applied[i].filename = filename

\* "filename not in applied_files" alone
PendingByName(applied, filename, dir_name) == ~Recorded(applied, filename)

\* "filename not in applied_files or applied_files[filename] != dir_name"
Pending(applied, filename, dir_name) ==
    \/ ~Recorded(applied, filename)
    \/ AppliedDir(applied, filename) # dir_name

\* what a public call hands back besides the database
Outcome(db, ret, calls, report) ==
    [db |-> db, ret |-> ret, calls |-> calls, report |-> report]

NoReport == [total_applied |-> 0, directories |-> <<>>]

\* init(db_path, data_dir) from the reset on
init(db, base) ==
    LET r == reset_database(db)
        data_dirs == get_all_data_directories(base)
        zero == Step0Dirs(data_dirs)
    IN  IF r.raised THEN Outcome(r.db, "raise", <<>>, NoReport)
        ELSE IF zero # <<>>
        THEN LET a == ApplyAll(r.db, base, zero[1], get_sql_files_in_dir(base, zero[1]),
                               1, <<>>)
             IN  Outcome(a.db, "True", a.calls, NoReport)
        ELSE Outcome(r.db, "True", <<>>, NoReport)

\* status() without the check for an empty data_dirs
status_any_dirs(db, isOpen, base) ==
    LET data_dirs == get_all_data_directories(base)
        applied_migrations == get_applied_migrations(db)
        count(d) == Cardinality({i \in 1..Len(applied_migrations) :
                                    applied_migrations[i].dir_prefix = d})
    IN  IF ~isOpen THEN Outcome(db, "False", <<>>, NoReport)
        ELSE IF ~db.hasLedger THEN Outcome(db, "raise", <<>>, NoReport)
        ELSE Outcome(db, "report", <<>>,
                [total_applied |-> Len(applied_migrations),
                 directories |->
                    [i \in 1..Len(data_dirs) |->
                        [dir_name |-> data_dirs[i],
                         applied |-> count(data_dirs[i]),
                         total |-> Len(get_sql_files_in_dir(base, data_dirs[i]))]]])

\* status() that counts the ledger rows of a directory by step number
status_by_step(db, isOpen, base) ==
    LET data_dirs == get_all_data_directories(base)
        applied_migrations == get_applied_migrations(db)
        count(d) == Cardinality({i \in 1..Len(applied_migrations) :
                                    StepOf(applied_migrations[i].dir_prefix) = StepOf(d)})
    IN  IF ~isOpen THEN Outcome(db, "False", <<>>, NoReport)
        ELSE IF data_dirs = <<>> THEN Outcome(db, "False", <<>>, NoReport)
        ELSE IF ~db.hasLedger THEN Outcome(db, "raise", <<>>, NoReport)
        ELSE Outcome(db, "report", <<>>,
                [total_applied |-> Len(applied_migrations),
                 directories |->
                    [i \in 1..Len(data_dirs) |->
                        [dir_name |-> data_dirs[i],
                         applied |-> count(data_dirs[i]),
                         total |-> Len(get_sql_files_in_dir(base, data_dirs[i]))]]])

\* status()
status(db, isOpen, base) ==
    LET data_dirs == get_all_data_directories(base)
        applied_migrations == get_applied_migrations(db)
        count(d) == Cardinality({i \in 1..Len(applied_migrations) :
                                    applied_migrations[i].dir_prefix = d})
    IN  IF ~isOpen THEN Outcome(db, "False", <<>>, NoReport)
        ELSE IF data_dirs = <<>> THEN Outcome(db, "False", <<>>, NoReport)
        ELSE IF ~db.hasLedger THEN Outcome(db, "raise", <<>>, NoReport)
        ELSE Outcome(db, "report", <<>>,
                [total_applied |-> Len(applied_migrations),
                 directories |->
                    [i \in 1..Len(data_dirs) |->
                        [dir_name |-> data_dirs[i],
                         applied |-> count(data_dirs[i]),
                         total |-> Len(get_sql_files_in_dir(base, data_dirs[i]))]]])

RECURSIVE ApplyPending(_, _, _, _, _, _, _)
\* the loop of set() over the SQL files of one directory: the Applier runs on
\* the files that are pending against applied_files, read before the walk
ApplyPending(db, base, dir, files, i, applied, calls) ==
    IF i > Len(files) THEN [db |-> db, calls |-> calls]
    ELSE IF ~Pending(applied, files[i], dir)
    THEN ApplyPending(db, base, dir, files, i + 1, applied, calls)
    ELSE LET r == apply_migration(db, files[i], Body(base, dir, files[i]), dir)
         IN  ApplyPending(r.db, base, dir, files, i + 1, applied,
                          Append(calls, Invocation(db, base, dir, files[i], r)))

RECURSIVE SetWalkAll(_, _, _, _, _, _, _)
\* the loop of set() without the comparison with target_step and the break
SetWalkAll(db, base, data_dirs, i, target_step, applied, calls) ==
    IF i > Len(data_dirs) THEN [db |-> db, calls |-> calls]
    ELSE LET r == ApplyPending(db, base, data_dirs[i],
                               get_sql_files_in_dir(base, data_dirs[i]), 1, applied, calls)
         IN  SetWalkAll(r.db, base, data_dirs, i + 1, target_step, applied, r.calls)

RECURSIVE SetWalk(_, _, _, _, _, _, _)
\* the loop of set() over data_dirs, from entry i on
SetWalk(db, base, data_dirs, i, target_step, applied, calls) ==
    IF i > Len(data_dirs) THEN [db |-> db, calls |-> calls]
    ELSE LET dir_name == data_dirs[i]
             prefix == StepOf(dir_name)
             r == IF prefix <= target_step
                  THEN ApplyPending(db, base, dir_name,
                                    get_sql_files_in_dir(base, dir_name), 1, applied, calls)
                  ELSE [db |-> db, calls |-> calls]
         IN  IF prefix = target_step THEN r
             ELSE SetWalk(r.db, base, data_dirs, i + 1, target_step, applied, r.calls)

\* the highest step number among the directory labels of the ledger, -1 if none
MaxAppliedStep(led) ==
    IF led = <<>> THEN -1
    ELSE LET S == {StepOf(led[i].dir_prefix) : i \in 1..Len(led)}
         IN  CHOOSE m \in S : \A x \in S : x <= m

\* set() with a forward-only guard in front of the walk
set_forward_only(db, isOpen, base, target_step) ==
    LET data_dirs == get_all_data_directories(base)
        available_steps == {StepOf(data_dirs[i]) : i \in 1..Len(data_dirs)}
    IN  IF ~isOpen THEN Outcome(db, "False", <<>>, NoReport)
        ELSE IF data_dirs = <<>> THEN Outcome(db, "False", <<>>, NoReport)
        ELSE IF ~db.hasLedger THEN Outcome(db, "raise", <<>>, NoReport)
        ELSE IF target_step \notin available_steps
        THEN Outcome(db, "False", <<>>, NoReport)
        ELSE IF target_step < MaxAppliedStep(get_applied_migrations(db))
        THEN Outcome(db, "False", <<>>, NoReport)
        ELSE LET w == SetWalk(db, base, data_dirs, 1, target_step,
                              get_applied_migrations(db), <<>>)
             IN  Outcome(w.db, "True", w.calls, NoReport)

\* set(target_step)
set(db, isOpen, base, target_step) ==
    LET data_dirs == get_all_data_directories(base)
        available_steps == {StepOf(data_dirs[i]) : i \in 1..Len(data_dirs)}
    IN  IF ~isOpen THEN Outcome(db, "False", <<>>, NoReport)
        ELSE IF data_dirs = <<>> THEN Outcome(db, "False", <<>>, NoReport)
        ELSE IF ~db.hasLedger THEN Outcome(db, "raise", <<>>, NoReport)
        ELSE IF target_step \notin available_steps
        THEN Outcome(db, "False", <<>>, NoReport)
        ELSE LET w == SetWalk(db, base, data_dirs, 1, target_step,
                              get_applied_migrations(db), <<>>)
             IN  Outcome(w.db, "True", w.calls, NoReport)

\* reset()
reset(db, isOpen, base) ==
    LET data_dirs == get_all_data_directories(base)
        r == reset_database(db)
        zero == Step0Dirs(data_dirs)
        sql_files == get_sql_files_in_dir(base, zero[1])
    IN  IF ~isOpen THEN Outcome(db, "False", <<>>, NoReport)
        ELSE IF data_dirs = <<>> THEN Outcome(db, "False", <<>>, NoReport)
        ELSE IF r.raised THEN Outcome(r.db, "raise", <<>>, NoReport)
        ELSE IF zero = <<>> THEN Outcome(r.db, "False", <<>>, NoReport)
        ELSE IF sql_files = <<>> THEN Outcome(r.db, "False", <<>>, NoReport)
        ELSE LET a == ApplyAll(r.db, base, zero[1], sql_files, 1, <<>>)
             IN  Outcome(a.db, "True", a.calls, NoReport)

\* close() without "_conn = None"
close_keeps_conn(isOpen) ==
    IF isOpen THEN [ret |-> "True", conn |-> TRUE]
    ELSE [ret |-> "False", conn |-> isOpen]

\* close(): the value returned and whether _conn is still set
close(isOpen) ==
    IF isOpen THEN [ret |-> "True", conn |-> FALSE]
    ELSE [ret |-> "False", conn |-> isOpen]

----------------------------------------------------------------------------
(* The data directories the engine is run on *)

Sql(c) == <<c, ".", "s", "q", "l">>
File(name, body) == [name |-> name, body |-> body]
Dir(name, files) == [name |-> name, isdir |-> TRUE, files |-> files]
Plain(name) == [name |-> name, isdir |-> FALSE, files |-> {}]
Base(entries) == [exists |-> TRUE, entries |-> entries]

\* one INSERT per primary key
Seed(t) == [key \in 1..MaxKey |-> Insert(t, key)]

\* data_dir does not exist
MissingBase == [exists |-> FALSE, entries |-> {}]

\* nothing that matches ^(\d+)_ or is a directory
NoStepDirs ==
    Base({Dir(<<"x", "_", "1">>, {File(Sql("a"), <<Create("p")>>)}),
          Dir(<<"1", "a">>, {File(Sql("a"), <<Create("p")>>)}),
          Plain(<<"1", "_", "a">>)})

\* a bootstrap step and a seed step whose files re-create, re-insert and fail
SeedLayout ==
    Base({Dir(<<"0", "_", "i">>,
              {File(Sql("a"), <<Create("p"), Create("c"), Blank>>),
               File(Sql("b"), Seed("p") \o <<Blank>> \o Seed("c")),
               File(<<"n", ".", "t", "x", "t">>, <<Bogus>>)}),
          Dir(<<"1", "_", "s">>,
              {File(Sql("c"), <<Create("p"), Create("c")>> \o Seed("p") \o Seed("c")),
               File(Sql("d"), <<Bogus, Create("c")>>),
               File(Sql("e"), Seed("p") \o <<Insert("c", MaxKey + 1)>>)})})

\* step numbers whose numeric order is not the lexical order of the names
OrderLayout ==
    Base({Dir(<<"0", "_", "b">>, {File(Sql("a"), <<Create("p"), Bogus>>)}),
          Dir(<<"0", "1", "_", "a">>, {File(Sql("b"), <<Create("c")>>)}),
          Dir(<<"2", "_", "y">>, {File(Sql("c"), Seed("p"))}),
          Dir(<<"1", "0", "_", "x">>, {File(Sql("d"), Seed("c"))})})

\* several directories of one step number; a step-0 file that needs step 1
TwinLayout ==
    Base({Dir(<<"0", "_", "a">>, {File(Sql("a"), Seed("c"))}),
          Dir(<<"0", "0", "_", "b">>, {File(Sql("b"), <<Create("c")>>)}),
          Dir(<<"1", "_", "a">>, {File(Sql("c"), <<Create("p")>> \o Seed("p"))}),
          Dir(<<"1", "_", "b">>, {File(Sql("d"), <<Create("c")>>)}),
          Dir(<<"2", "_", "c">>, {File(Sql("e"), <<Create("p"), Create("c")>>)})})

\* one file name in two step directories
SameNameLayout ==
    Base({Dir(<<"0", "_", "i">>, {File(Sql("a"), <<Create("p")>>)}),
          Dir(<<"1", "_", "s">>, {File(Sql("a"), <<Create("p")>> \o Seed("p")),
                                  File(Sql("b"), <<Create("c")>>)})})

\* two directories of one step, one name a prefix of the other; no step 0
PrefixLayout ==
    Base({Dir(<<"1", "_", "a">>, {File(Sql("x"), <<Create("p")>>)}),
          Dir(<<"1", "_", "a", "-", "b">>, {File(Sql("a"), <<Create("c")>>)}),
          Dir(<<"2", "_", "c">>, {File(Sql("y"), Seed("p") \o Seed("c"))})})

\* a step 0 without SQL files; files that fail after a CREATE TABLE
EmptyZeroLayout ==
    Base({Dir(<<"0", "_", "e">>, {File(<<"n", ".", "t", "x", "t">>, <<Bogus>>)}),
          Dir(<<"1", "_", "s">>,
              {File(Sql("a"), <<Create("p"), Bogus>>),
               File(Sql("b"), Seed("p") \o <<Create("c"), Bogus>>)})})

Layouts == {MissingBase, NoStepDirs, SeedLayout, OrderLayout, TwinLayout,
            SameNameLayout, PrefixLayout, EmptyZeroLayout}

----------------------------------------------------------------------------
(* The state machine *)

NoCall == [op |-> "none", arg |-> 0, ret |-> "none", calls |-> <<>>,
           report |-> NoReport, dirs |-> <<>>, base |-> MissingBase,
           pre |-> [tables |-> <<>>, rows |-> {}, hasLedger |-> FALSE, ledger |-> <<>>],
           preConn |-> FALSE, prev |-> "none"]

\* the record of a public call that returned o, with the data directory and
\* the database it started from
Call(op, arg, o) ==
    [op |-> op, arg |-> arg, ret |-> o.ret, calls |-> o.calls, report |-> o.report,
     dirs |-> get_all_data_directories(fs), base |-> fs, pre |-> DB, preConn |-> conn,
     prev |-> last.op]

\* a fresh database file, no connection, some data directory
Init ==
    /\ fs \in Layouts
    /\ conn = FALSE
    /\ hasLedger = FALSE
    /\ ledger = <<>>
    /\ tables = <<>>
    /\ rows = {}
    /\ hist = {}
    /\ last = NoCall

Store(db) ==
    /\ hasLedger' = db.hasLedger
    /\ ledger' = db.ledger
    /\ tables' = db.tables
    /\ rows' = db.rows

\* e asks at least what f asks of a later set call: a target no higher, and
\* every row of f
Covers(e, f) == e.step <= f.step /\ Range(f.ledger) \subseteq Range(e.ledger)

\* the set calls since the last init/reset, each with its target and the
\* ledger it left; a call another one covers is not kept
Remember(h, step, led) ==
    LET new == [step |-> step, ledger |-> led]
    IN  IF \E e \in h : Covers(e, new) THEN h
        ELSE {e \in h : ~Covers(new, e)} \cup {new}

InitCall ==
    LET o == init(DB, fs)
    IN  /\ conn' = TRUE
        /\ Store(o.db)
        /\ hist' = {}
        /\ last' = Call("init", 0, o)
        /\ UNCHANGED fs

\* status() on the directory listing of the call before
StatusCallCached ==
    LET o == status(DB, conn, last.base)
    IN  /\ Store(o.db)
        /\ last' = Call("status", 0, o)
        /\ UNCHANGED <<fs, conn, hist>>

StatusCall ==
    LET o == status(DB, conn, fs)
    IN  /\ Store(o.db)
        /\ last' = Call("status", 0, o)
        /\ UNCHANGED <<fs, conn, hist>>

SetCall ==
    \E target_step \in 0..MaxStep :
        LET o == set(DB, conn, fs, target_step)
        IN  /\ Store(o.db)
            /\ hist' = Remember(hist, target_step, o.db.ledger)
            /\ last' = Call("set", target_step, o)
            /\ UNCHANGED <<fs, conn>>

ResetCall ==
    LET o == reset(DB, conn, fs)
    IN  /\ Store(o.db)
        /\ hist' = {}
        /\ last' = Call("reset", 0, o)
        /\ UNCHANGED <<fs, conn>>

CloseCall ==
    /\ conn' = close(conn).conn
    /\ last' = Call("close", 0, Outcome(DB, close(conn).ret, <<>>, NoReport))
    /\ UNCHANGED <<fs, hasLedger, ledger, tables, rows, hist>>

Next ==
    \/ InitCall
    \/ StatusCall
    \/ SetCall
    \/ ResetCall
    \/ CloseCall

Spec == Init /\ [][Next]_vars

----------------------------------------------------------------------------
(* The same engine on a data directory that changes between the calls *)

\* the data directory with every step directory and file it ever holds
FullLayout ==
    Base({Dir(<<"0", "_", "i">>, {File(Sql("a"), <<Create("p")>>)}),
          Dir(<<"1", "_", "s">>, {File(Sql("b"), Seed("p"))})})

\* a step directory with some of its files
Thinned(e) == {[e EXCEPT !.files = F] : F \in SUBSET e.files}

\* the data directories made of some entries of U, each with some of its files
Variants(U) ==
    UNION {{Base({g[e] : e \in D}) :
                g \in {h \in [D -> UNION {Thinned(e) : e \in D}] :
                            \A e \in D : h[e] \in Thinned(e)}} :
           D \in SUBSET U.entries}

\* step directories and SQL files are added to and removed from the data
\* directory between two calls
FilesystemChange ==
    /\ fs' \in Variants(FullLayout) \ {fs}
    /\ last' = Call("edit", 0, Outcome(DB, "none", <<>>, NoReport))
    /\ UNCHANGED <<conn, hasLedger, ledger, tables, rows, hist>>

InitFs ==
    /\ fs \in Variants(FullLayout)
    /\ conn = FALSE
    /\ hasLedger = FALSE
    /\ ledger = <<>>
    /\ tables = <<>>
    /\ rows = {}
    /\ hist = {}
    /\ last = NoCall

NextFs ==
    \/ Next
    \/ FilesystemChange

SpecFs == InitFs /\ [][NextFs]_vars

----------------------------------------------------------------------------
(* The YAML migration tool of src/migrate.py: one run of main() per action.  *)
(* fs is the migrations file, ledger the rows of its migration_history in    *)
(* insertion order, tables and rows the rest of the database file; the       *)
(* connection is opened and closed inside a run, so conn stays FALSE.        *)

\* one entry of data['migrations']: id, tag and the statements of its sql
Migration(id, tag, sql) == [id |-> id, tag |-> tag, sql |-> sql]

MigrationsFile(migrations) == [exists |-> TRUE, migrations |-> migrations]

\* --migrations-file names no file
NoMigrationsFile == [exists |-> FALSE, migrations |-> <<>>]

\* "migrations: []"
EmptyFile == MigrationsFile(<<>>)

\* ids 1, 2, 3 in order
PlainFile ==
    MigrationsFile(<<Migration(1, "a", <<Create("p"), Blank>>),
                     Migration(2, "b", Seed("p")),
                     Migration(3, "c", <<Create("c")>> \o Seed("c"))>>)

\* the first id is not 1
OffsetFile ==
    MigrationsFile(<<Migration(5, "a", <<Create("p")>>),
                     Migration(6, "b", <<Create("c")>>),
                     Migration(7, "c", Seed("p"))>>)

\* no migration of id 3
GapFile ==
    MigrationsFile(<<Migration(1, "a", <<Create("p")>>),
                     Migration(2, "b", <<Create("c")>>),
                     Migration(4, "c", Seed("p"))>>)

\* the first migration of the file has not the lowest id
UnorderedFile ==
    MigrationsFile(<<Migration(2, "a", <<Create("p")>>),
                     Migration(1, "b", <<Create("c")>>),
                     Migration(3, "c", Seed("p"))>>)

\* one id twice
DuplicateIdFile ==
    MigrationsFile(<<Migration(1, "a", <<Create("p")>>),
                     Migration(1, "b", <<Create("c")>>),
                     Migration(2, "c", <<Create("c")>>),
                     Migration(2, "d", Seed("p"))>>)

\* a migration that fails after a CREATE TABLE, one that creates a table again
FailingFile ==
    MigrationsFile(<<Migration(1, "a", <<Create("p")>>),
                     Migration(2, "b", Seed("p") \o <<Create("p")>>),
                     Migration(3, "c", <<Create("c")>>)>>)

\* the first migration fails
FailingFirstFile ==
    MigrationsFile(<<Migration(1, "a", <<Create("c"), Bogus>>),
                     Migration(2, "b", <<Create("p")>>)>>)

MigrationFiles == {NoMigrationsFile, EmptyFile, PlainFile, OffsetFile, GapFile,
                   UnorderedFile, DuplicateIdFile, FailingFile, FailingFirstFile}

RECURSIVE ExecuteAll(_, _, _)
\* "for statement in sql.split(';'): if statement.strip(): cursor.execute":
\* the first statement that raises ends the loop
ExecuteAll(st, sql, i) ==
    IF i > Len(sql) THEN [st |-> st, aborted |-> FALSE]
    ELSE IF sql[i].k = "blank" THEN ExecuteAll(st, sql, i + 1)
    ELSE LET r == Execute(st, sql[i])
         IN  IF r.err.exc = "none" THEN ExecuteAll(r.st, sql, i + 1)
             ELSE [st |-> r.st, aborted |-> TRUE]

\* the UNIQUE constraint on migration_history.migration_id
DuplicateId(led, id) == \E i \in 1..Len(led) : led[i].migration_id = id

\* apply_migration(conn, migration) of migrate.py: the database afterwards
\* and the value returned
migrate_apply_migration(db, migration) ==
    LET st0 == [tables |-> db.tables, rows |-> db.rows, inTxn |-> FALSE,
                snap |-> [tables |-> db.tables, rows |-> db.rows]]
        r == ExecuteAll(st0, migration.sql, 1)
        b == Begin(r.st)
        failed(st) == [db |-> [db EXCEPT !.tables = Rollback(st).tables,
                                        !.rows = Rollback(st).rows],
                       ok |-> FALSE]
    IN  IF r.aborted THEN failed(r.st)
        ELSE IF ~db.hasLedger \/ DuplicateId(db.ledger, migration.id) THEN failed(b)
        ELSE [db |-> [db EXCEPT !.tables = b.tables, !.rows = b.rows,
                                !.ledger = Append(@, [migration_id |-> migration.id,
                                                      tag |-> migration.tag])],
              ok |-> TRUE]

\* setup_migration_tracking of migrate.py: CREATE TABLE IF NOT EXISTS
migrate_setup_migration_tracking(db) == [db EXCEPT !.hasLedger = TRUE]

RECURSIVE SortIds(_)
\* ORDER BY migration_id
SortIds(S) ==
    IF S = {} THEN <<>>
    ELSE LET m == CHOOSE x \in S : \A y \in S : x <= y
         IN  <<m>> \o SortIds(S \ {m})

\* get_applied_migrations of migrate.py: the recorded ids in ascending order
migrate_get_applied_migrations(db) ==
    SortIds({db.ledger[i].migration_id : i \in 1..Len(db.ledger)})

\* max(applied)
MaxId(applied) == applied[Len(applied)]

\* --next that takes the first migration of the file that is not recorded
next_migration_first_pending(migrations, applied) ==
    SelectSeq(migrations, LAMBDA m : m.id \notin Range(applied))

\* the migrations "next(...)" picks the first of: those whose id is next_id
next_migration(migrations, applied) ==
    LET next_id == IF applied # <<>> THEN MaxId(applied) + 1 ELSE 1
    IN  SelectSeq(migrations, LAMBDA m : m.id = next_id)

\* what a run hands back: the database file, how it ended, the migrations it
\* applied with the result of each, and the lines of --status
RunOutcome(db, ret, calls, report) ==
    [db |-> db, ret |-> ret, calls |-> calls, report |-> report]

\* one call of apply_migration, as the run log keeps it
Applied(db, migration, r) ==
    [id |-> migration.id, ok |-> r.ok, pre |-> db, post |-> r.db]

\* main() with --init applying migrations[0] whatever the history holds
main_init_unguarded(db, file, args) ==
    LET migrations == file.migrations
        d == migrate_setup_migration_tracking(db)
        applied == migrate_get_applied_migrations(d)
    IN  IF ~file.exists THEN RunOutcome(db, "exit 1", <<>>, <<>>)
        ELSE IF args.status
        THEN RunOutcome(d, "exit 0", <<>>,
                        [i \in 1..Len(migrations) |->
                            [id |-> migrations[i].id,
                             status |-> IF migrations[i].id \in Range(applied)
                                        THEN "APPLIED" ELSE "PENDING"]])
        ELSE IF args.init
        THEN IF migrations # <<>>
             THEN LET r == migrate_apply_migration(d, migrations[1])
                  IN  RunOutcome(r.db, "exit 0", <<Applied(d, migrations[1], r)>>, <<>>)
             ELSE RunOutcome(d, "exit 0", <<>>, <<>>)
        ELSE IF args.next
        THEN IF applied = <<>> /\ migrations # <<>>
             THEN RunOutcome(d, "exit 0", <<>>, <<>>)
             ELSE LET n == next_migration(migrations, applied)
                  IN  IF n # <<>>
                      THEN LET r == migrate_apply_migration(d, n[1])
                           IN  RunOutcome(r.db, "exit 0", <<Applied(d, n[1], r)>>, <<>>)
                      ELSE RunOutcome(d, "exit 0", <<>>, <<>>)
        ELSE RunOutcome(d, "exit 0", <<>>, <<>>)

\* main(): one run of the tool with the flags args on the database file db
main(db, file, args) ==
    LET migrations == file.migrations
        d == migrate_setup_migration_tracking(db)
        applied == migrate_get_applied_migrations(d)
    IN  IF ~file.exists THEN RunOutcome(db, "exit 1", <<>>, <<>>)
        ELSE IF args.status
        THEN RunOutcome(d, "exit 0", <<>>,
                        [i \in 1..Len(migrations) |->
                            [id |-> migrations[i].id,
                             status |-> IF migrations[i].id \in Range(applied)
                                        THEN "APPLIED" ELSE "PENDING"]])
        ELSE IF args.init
        THEN IF applied # <<>> THEN RunOutcome(d, "exit 0", <<>>, <<>>)
             ELSE IF migrations # <<>>
             THEN LET r == migrate_apply_migration(d, migrations[1])
                  IN  RunOutcome(r.db, "exit 0", <<Applied(d, migrations[1], r)>>, <<>>)
             ELSE RunOutcome(d, "exit 0", <<>>, <<>>)
        ELSE IF args.next
        THEN IF applied = <<>> /\ migrations # <<>>
             THEN RunOutcome(d, "exit 0", <<>>, <<>>)
             ELSE LET n == next_migration(migrations, applied)
                  IN  IF n # <<>>
                      THEN LET r == migrate_apply_migration(d, n[1])
                           IN  RunOutcome(r.db, "exit 0", <<Applied(d, n[1], r)>>, <<>>)
                      ELSE RunOutcome(d, "exit 0", <<>>, <<>>)
        ELSE RunOutcome(d, "exit 0", <<>>, <<>>)

\* the flags of a command line
Args(s, i, n) == [status |-> s, init |-> i, next |-> n]

NoRun == [op |-> "none", args |-> Args(FALSE, FALSE, FALSE), ret |-> "none",
          calls |-> <<>>, report |-> <<>>,
          pre |-> [tables |-> <<>>, rows |-> {}, hasLedger |-> FALSE, ledger |-> <<>>],
          prev |-> "none"]

\* the record of a run of main() with flags args that ended as o; op is the
\* branch of the if/elif chain the flags select
Run(op, args, o) ==
    [op |-> op, args |-> args, ret |-> o.ret, calls |-> o.calls, report |-> o.report,
     pre |-> DB, prev |-> last.op]

\* no database file yet, some migrations file
InitTool ==
    /\ fs \in MigrationFiles
    /\ conn = FALSE
    /\ hasLedger = FALSE
    /\ ledger = <<>>
    /\ tables = <<>>
    /\ rows = {}
    /\ hist = {}
    /\ last = NoRun

\* migrate.py --status, with or without --init and --next
RunStatus ==
    \E i, n \in BOOLEAN :
        LET o == main(DB, fs, Args(TRUE, i, n))
        IN  /\ Store(o.db)
            /\ last' = Run("status", Args(TRUE, i, n), o)
            /\ UNCHANGED <<fs, conn, hist>>

\* migrate.py --init, with or without --next
RunInit ==
    \E n \in BOOLEAN :
        LET o == main(DB, fs, Args(FALSE, TRUE, n))
        IN  /\ Store(o.db)
            /\ last' = Run("init", Args(FALSE, TRUE, n), o)
            /\ UNCHANGED <<fs, conn, hist>>

\* migrate.py --next
RunNext ==
    LET o == main(DB, fs, Args(FALSE, FALSE, TRUE))
    IN  /\ Store(o.db)
        /\ last' = Run("next", Args(FALSE, FALSE, TRUE), o)
        /\ UNCHANGED <<fs, conn, hist>>

\* migrate.py without --status, --init or --next: print_help
RunHelp ==
    LET o == main(DB, fs, Args(FALSE, FALSE, FALSE))
    IN  /\ Store(o.db)
        /\ last' = Run("help", Args(FALSE, FALSE, FALSE), o)
        /\ UNCHANGED <<fs, conn, hist>>

NextTool ==
    \/ RunStatus
    \/ RunInit
    \/ RunNext
    \/ RunHelp

SpecTool == InitTool /\ [][NextTool]_vars

----------------------------------------------------------------------------
(* Properties *)

\* the step numbers get_all_data_directories found for the last call
Discovered == {StepOf(last.dirs[i]) : i \in 1..Len(last.dirs)}

IsPrefix(a, b) == Len(a) <= Len(b) /\ SubSeq(b, 1, Len(a)) = a

\* the ledger rows the last call added
Added == SubSeq(ledger, Len(last.pre.ledger) + 1, Len(ledger))

\* the last call was set(k) on an open connection for a discovered k below
\* the highest step recorded in the ledger
BelowMaxApplied ==
    /\ last.op = "set"
    /\ last.preConn
    /\ last.arg \in Discovered
    /\ last.arg < MaxAppliedStep(last.pre.ledger)

C2_UnknownStepRejected ==
    (last.op = "set" /\ last.preConn /\ last.arg \notin Discovered) =>
        /\ last.ret = "False"
        /\ last.calls = <<>>
        /\ DB = last.pre

\* C3: a set(b) keeps every ledger row left by an earlier set(a), a < b, of the
\* same init/reset epoch.
C3_MonotonicLedgerGrowth ==
    [][last'.op = "set" =>
        \A e \in hist : e.step < last'.arg =>
            Range(e.ledger) \subseteq Range(ledger')]_vars

\* a set(b) after a set(a), a < b, that had left rows, added rows to them
C3_Witness ==
    /\ last.op = "set"
    /\ \E e \in hist : /\ e.step < last.arg
                       /\ e.ledger # <<>>
                       /\ Len(ledger) > Len(e.ledger)

\* C4: a second init in succession leaves the ledger the first init left.
C4_InitIdempotent ==
    (last.op = "init" /\ last.prev = "init") =>
        /\ hasLedger = last.pre.hasLedger
        /\ ledger = last.pre.ledger

\* what the Applier did, call by call, during the last public call
Calls == {last.calls[i] : i \in 1..Len(last.calls)}

Failed(err) == err.exc # "none"

\* object already exists, or uniqueness-constraint violation
Benign(err) ==
    Failed(err) /\ err.msg \in {"already exists", "UNIQUE constraint failed"}

\* the statements of a file body that are not blank, by position
NonBlank(body) == {i \in 1..Len(body) : body[i].k # "blank"}

\* the positions of the statements an apply executed, in execution order
Executed(c) == [j \in 1..Len(c.trace) |-> c.trace[j].idx]

RECURSIVE Ascending(_)
\* the members of a set of numbers as an increasing sequence
Ascending(S) ==
    IF S = {} THEN <<>>
    ELSE LET m == CHOOSE x \in S : \A y \in S : x <= y
         IN  <<m>> \o Ascending(S \ {m})

\* a statement of the file failed with an error that is not benign
FatalStatement(c) == \E j \in 1..Len(c.trace) : Failed(c.trace[j].err) /\ ~Benign(c.trace[j].err)

\* the file name is already in the ledger the apply started from
NameInLedger(c) == \E i \in 1..Len(c.pre.ledger) : c.pre.ledger[i].filename = c.filename

LedgerRow(c) == [filename |-> c.filename, dir_prefix |-> c.dir]

\* C5: a statement failing with already-exists or a uniqueness violation does
\* not abort the file: the next statement is executed, and without any other
\* error every statement is executed in order, one ledger row is recorded and
\* the apply returns success.
C5_TolerantReapplication ==
    \A c \in Calls :
        (\E j \in 1..Len(c.trace) : Benign(c.trace[j].err)) =>
            /\ \A j \in 1..Len(c.trace) :
                  (Benign(c.trace[j].err) /\ \E i \in NonBlank(c.body) : i > c.trace[j].idx) =>
                      /\ j < Len(c.trace)
                      /\ c.trace[j + 1].idx =
                            Ascending({i \in NonBlank(c.body) : i > c.trace[j].idx})[1]
            /\ (~FatalStatement(c) /\ ~NameInLedger(c)) =>
                  /\ Executed(c) = Ascending(NonBlank(c.body))
                  /\ c.ok
                  /\ c.post.ledger = Append(c.pre.ledger, LedgerRow(c))

\* an apply met an existing table and an existing row, went on past both and
\* recorded the file
C5_Witness ==
    \E c \in Calls :
        /\ c.ok
        /\ \E j, k \in 1..Len(c.trace) :
              /\ j < k /\ k < Len(c.trace)
              /\ c.trace[j].err.msg = "already exists"
              /\ c.trace[k].err.msg = "UNIQUE constraint failed"
        /\ c.post.ledger = Append(c.pre.ledger, LedgerRow(c))

\* C6: a statement failing with any other error is the last statement the
\* apply executes; the apply adds no ledger row and returns failure.
C6_FatalStatementAborts ==
    \A c \in Calls :
        \A j \in 1..Len(c.trace) :
            (Failed(c.trace[j].err) /\ ~Benign(c.trace[j].err)) =>
                /\ j = Len(c.trace)
                /\ ~c.ok
                /\ c.post.ledger = c.pre.ledger

\* an apply stopped at a failing statement that had statements after it
C6_Witness ==
    \E c \in Calls :
        /\ ~c.ok
        /\ FatalStatement(c)
        /\ \E i \in NonBlank(c.body) : i > c.trace[Len(c.trace)].idx

\* C7: after an apply that returns failure the database is exactly what it
\* was before the apply started.
C7_FileAtomicity ==
    \A c \in Calls : ~c.ok => c.post = c.pre

\* C8: no filename occurs in more than one ledger row.
C8_LedgerUnique ==
    \A i, j \in 1..Len(ledger) : ledger[i].filename = ledger[j].filename => i = j

\* an apply ran every statement of a file whose name the ledger already held,
\* and the ledger insert was refused
C8_Witness ==
    \E c \in Calls :
        /\ NameInLedger(c)
        /\ ~FatalStatement(c)
        /\ ~c.ok
        /\ ledger # <<>>

\* the SQL files of a directory recorded in the ledger under its label
RecordedFiles(dir) ==
    {f \in Range(get_sql_files_in_dir(fs, dir)) :
        \E i \in 1..Len(ledger) : ledger[i] = [filename |-> f, dir_prefix |-> dir]}

\* C9: with a connection open and a step directory, status() reports per
\* discovered directory the number of its SQL files recorded under its label
\* and the number of its SQL files, and total_applied = the ledger's row count.
C9_StatusAccuracy ==
    (last.op = "status" /\ last.preConn /\ last.dirs # <<>>) =>
        /\ last.ret = "report"
        /\ last.report.total_applied = Len(ledger)
        /\ Len(last.report.directories) = Len(last.dirs)
        /\ \A i \in 1..Len(last.dirs) :
              /\ last.report.directories[i].dir_name = last.dirs[i]
              /\ last.report.directories[i].applied = Cardinality(RecordedFiles(last.dirs[i]))
              /\ last.report.directories[i].total =
                    Cardinality(Range(get_sql_files_in_dir(fs, last.dirs[i])))

\* (step number, full file path) of a ledger row below (step, path) of another
PathOrdered(a, b) ==
    \/ StepOf(a.dir_prefix) < StepOf(b.dir_prefix)
    \/ /\ StepOf(a.dir_prefix) = StepOf(b.dir_prefix)
       /\ CodeLess(JoinPath(a.dir_prefix, a.filename), JoinPath(b.dir_prefix, b.filename))

\* (step number, directory path, file name) of a row below that of another
DirFileOrdered(a, b) ==
    \/ StepOf(a.dir_prefix) < StepOf(b.dir_prefix)
    \/ /\ StepOf(a.dir_prefix) = StepOf(b.dir_prefix)
       /\ \/ CodeLess(Codes(a.dir_prefix), Codes(b.dir_prefix))
          \/ a.dir_prefix = b.dir_prefix /\ CodeLess(Codes(a.filename), Codes(b.filename))

\* set invoked the Applier directory by directory in ascending step order and
\* file by file in lexical order inside a directory
CallsInOrder ==
    \A i, j \in 1..Len(last.calls) :
        i < j => DirFileOrdered(LedgerRow(last.calls[i]), LedgerRow(last.calls[j]))

\* C10 as stated: set applies in ascending numeric step order and lexical file
\* order inside a directory, hence the rows one set call adds are in ascending
\* (step number, file path) order.
C10_RowsInStepPathOrder ==
    last.op = "set" =>
        /\ CallsInOrder
        /\ \A i, j \in 1..Len(Added) : i < j => PathOrdered(Added[i], Added[j])

\* C10 amended: set applies in ascending numeric step order and lexical file
\* order inside a directory, hence the rows one set call adds are in ascending
\* (step number, directory path, file name) order.
C10_RowsInStepDirFileOrder ==
    last.op = "set" =>
        /\ CallsInOrder
        /\ \A i, j \in 1..Len(Added) : i < j => DirFileOrdered(Added[i], Added[j])

\* a set call recorded a file of a directory before a file of a directory of
\* a higher step whose name sorts lower
C10_Witness ==
    /\ last.op = "set"
    /\ \E i, j \in 1..Len(Added) :
          /\ i < j
          /\ StepOf(Added[i].dir_prefix) < StepOf(Added[j].dir_prefix)
          /\ StrLess(Added[j].dir_prefix, Added[i].dir_prefix)

\* the SQL files of a directory whose (filename, label) pair is not in led
PendingFiles(dir, led) ==
    {f \in Range(get_sql_files_in_dir(fs, dir)) :
        \A i \in 1..Len(led) : led[i] # [filename |-> f, dir_prefix |-> dir]}

\* C11: set(t) invokes the Applier on no file of a directory whose step number
\* is above t, and adds no ledger row labelled with such a directory.
C11_TargetBound ==
    last.op = "set" =>
        /\ \A c \in Calls : StepOf(c.dir) <= last.arg
        /\ \A i \in 1..Len(Added) : StepOf(Added[i].dir_prefix) <= last.arg

\* a set(t) applied files while a directory above t had files to apply
C11_Witness ==
    /\ last.op = "set"
    /\ last.calls # <<>>
    /\ \E d \in Range(last.dirs) :
          StepOf(d) > last.arg /\ PendingFiles(d, ledger) # {}

\* the invocations of the Applier on file f of directory d during the last call
CallsOn(d, f) == {i \in 1..Len(last.calls) : last.calls[i].dir = d /\ last.calls[i].filename = f}

\* C12: for a discovered target t, set(t) invokes the Applier exactly once on
\* each SQL file of every discovered directory of step <= t whose (filename,
\* label) pair is not in the ledger, directories of one step number included.
C12_CompleteWalk ==
    (last.op = "set" /\ last.preConn /\ last.arg \in Discovered) =>
        \A d \in Range(last.dirs) :
            StepOf(d) <= last.arg =>
                \A f \in PendingFiles(d, last.pre.ledger) : Cardinality(CallsOn(d, f)) = 1

\* C13: status() and set(t) return False, invoke the Applier for no file and
\* leave the database unchanged when no connection is open or no step
\* directory is discovered (a missing base directory included).
C13_PreconditionFailures ==
    (last.op \in {"status", "set"} /\ (~last.preConn \/ last.dirs = <<>>)) =>
        /\ last.ret = "False"
        /\ last.calls = <<>>
        /\ DB = last.pre

\* status() was refused on an open connection because the existing base
\* directory holds no step directory
C13_Witness ==
    /\ last.op = "status"
    /\ last.preConn
    /\ fs.exists
    /\ last.dirs = <<>>
    /\ last.ret = "False"

\* C14: init, status, set and close end by returning a value, never by
\* raising; a failure while init's reset drops the tables is returned too.
C14_NoExceptionEscapes ==
    last.op \in {"init", "status", "set", "close"} =>
        last.ret \in {"True", "False", "report"}

\* C15: when the Applier fails on a file during init or set, the call
\* returns False.
C15_FailureReturnsFalse ==
    (last.op \in {"init", "set"} /\ \E c \in Calls : ~c.ok) => last.ret = "False"

RECURSIVE OkRows(_)
\* the ledger rows of the invocations that returned success, in call order
OkRows(calls) ==
    IF calls = <<>> THEN <<>>
    ELSE (IF Head(calls).ok THEN <<LedgerRow(Head(calls))>> ELSE <<>>) \o OkRows(Tail(calls))

\* C16: a ledger row is created only by an Applier run that returns success
\* and is never modified; status, close and set keep every row in place, only
\* the reset inside init or reset removes rows.
C16_LedgerLifecycle ==
    /\ \A c \in Calls :
          c.post.ledger = IF c.ok THEN Append(c.pre.ledger, LedgerRow(c)) ELSE c.pre.ledger
    /\ last.op \in {"status", "close", "set"} => ledger = last.pre.ledger \o OkRows(last.calls)
    /\ last.op \in {"init", "reset"} =>
          \/ ledger = OkRows(last.calls)
          \/ last.calls = <<>> /\ ledger = last.pre.ledger

\* a set call on a ledger with rows recorded one file and failed on another
C16_Witness ==
    /\ last.op = "set"
    /\ last.pre.ledger # <<>>
    /\ \E c \in Calls : c.ok
    /\ \E c \in Calls : ~c.ok
    /\ Len(ledger) > Len(last.pre.ledger)

\* C17: close() returns True exactly when a connection was open; afterwards
\* no connection is open, a repeated close returns False, and status, set and
\* reset return False until the next init.
C17_CloseReleases ==
    /\ last.op = "close" => (last.ret = "True" <=> last.preConn) /\ ~conn
    /\ (last.op = "close" /\ last.prev = "close") => last.ret = "False"
    /\ (last.op \in {"status", "set", "reset", "close"} /\ ~last.preConn) =>
          last.ret = "False" /\ ~conn

\* after a close of an open connection, one more public call was refused
C17_Witness ==
    /\ last.prev = "close"
    /\ last.op \in {"status", "set", "reset", "close"}
    /\ ~last.preConn
    /\ hasLedger
    /\ last.ret = "False"

\* C18: when no discovered directory has step number 0 (a missing base
\* directory included), init returns success and leaves the ledger table
\* present with zero rows, whatever the database held before.
C18_InitWithoutStepZero ==
    (last.op = "init" /\ \A d \in Range(last.dirs) : StepOf(d) # 0) =>
        /\ last.ret = "True"
        /\ hasLedger
        /\ ledger = <<>>

\* the discovered directories of step number 0, in discovery order
ZeroDirs == SelectSeq(last.dirs, LAMBDA d : StepOf(d) = 0)

\* C19: right after init returns, the ledger holds exactly the SQL files of the
\* (first) step-0 directory whose apply succeeded, labelled with that
\* directory, in lexical file order, and no row of any other step.
C19_InitResult ==
    (last.op = "init" /\ last.ret # "raise") =>
        /\ hasLedger
        /\ ledger = OkRows(last.calls)
        /\ \A i, j \in 1..Len(ledger) :
              i < j => CodeLess(Codes(ledger[i].filename), Codes(ledger[j].filename))
        /\ IF ZeroDirs = <<>> THEN last.calls = <<>>
           ELSE /\ [i \in 1..Len(last.calls) |-> last.calls[i].filename] =
                      get_sql_files_in_dir(fs, ZeroDirs[1])
                /\ \A c \in Calls : c.dir = ZeroDirs[1]

\* init returned on a database whose ledger held rows of later steps and
\* left rows of step 0 only
C19_Witness ==
    /\ last.op = "init"
    /\ last.ret = "True"
    /\ \E i \in 1..Len(last.pre.ledger) : StepOf(last.pre.ledger[i].dir_prefix) > 0
    /\ ledger # <<>>

\* the position of a directory in the discovered order
DirIndex(d) == CHOOSE i \in 1..Len(last.dirs) : last.dirs[i] = d

\* file f of directory d comes after invocation c in the walk
LaterThan(d, f, c) ==
    \/ DirIndex(d) > DirIndex(c.dir)
    \/ d = c.dir /\ StrLess(c.filename, f)

\* the Applier was invoked on file f of directory d after invocation number i
InvokedAfter(d, f, i) ==
    \E j \in 1..Len(last.calls) :
        j > i /\ last.calls[j].dir = d /\ last.calls[j].filename = f

\* C20: when the Applier fails on a file during set(t) or init, it is still
\* invoked on every later pending file of that directory and, for set, of
\* every later directory up to the target.
C20_ContinueAfterFailure ==
    /\ last.op = "set" =>
          \A i \in 1..Len(last.calls) :
              ~last.calls[i].ok =>
                  \A d \in Range(last.dirs) :
                      StepOf(d) <= last.arg =>
                          \A f \in PendingFiles(d, last.pre.ledger) :
                              LaterThan(d, f, last.calls[i]) => InvokedAfter(d, f, i)
    /\ last.op = "init" =>
          \A i \in 1..Len(last.calls) :
              ~last.calls[i].ok =>
                  \A f \in Range(get_sql_files_in_dir(fs, last.calls[i].dir)) :
                      StrLess(last.calls[i].filename, f) =>
                          InvokedAfter(last.calls[i].dir, f, i)

\* C21: an apply that returns success adds exactly one ledger row (file base
\* name, directory label) whatever the number of statements of the file, and
\* an apply that returns failure adds none; success is returned only if every
\* statement ran cleanly or was tolerated and the ledger insert went through.
C21_OneRowPerFile ==
    \A c \in Calls :
        /\ c.ok => /\ c.post.ledger = Append(c.pre.ledger, LedgerRow(c))
                   /\ Executed(c) = Ascending(NonBlank(c.body))
                   /\ \A j \in 1..Len(c.trace) :
                         Failed(c.trace[j].err) => Tolerated(c.trace[j].err)
                   /\ c.pre.hasLedger
                   /\ ~NameInLedger(c)
        /\ ~c.ok => c.post.ledger = c.pre.ledger

\* one public call recorded a file of several statements, some of them
\* tolerated, in one row and recorded nothing for a file that failed
C21_Witness ==
    /\ \E c \in Calls :
          /\ c.ok
          /\ Len(c.trace) >= 3
          /\ \E j \in 1..Len(c.trace) : Failed(c.trace[j].err)
          /\ Len(c.post.ledger) = Len(c.pre.ledger) + 1
    /\ \E c \in Calls : ~c.ok /\ c.trace # <<>>

\* set(t) walks directory d: its step is at most t and no directory before it
\* has step t
Reached(d) ==
    /\ StepOf(d) <= last.arg
    /\ \A e \in Range(last.dirs) : DirIndex(e) < DirIndex(d) => StepOf(e) # last.arg

\* the SQL files of directory d that led records under another label
ForeignFiles(d, led) ==
    {f \in Range(get_sql_files_in_dir(fs, d)) : Recorded(led, f) /\ AppliedDir(led, f) # d}

\* C22: a file whose base name the ledger records under another directory
\* label is pending for every set that reaches its directory: the Applier is
\* invoked on it, the statements run, the ledger insert is refused as a
\* duplicate, the apply returns failure and leaves the ledger unchanged.
C22_SameNameOtherLabel ==
    (last.op = "set" /\ last.preConn /\ last.arg \in Discovered) =>
        \A d \in Range(last.dirs) :
            Reached(d) =>
                \A f \in ForeignFiles(d, last.pre.ledger) :
                    /\ Cardinality(CallsOn(d, f)) = 1
                    /\ \A i \in CallsOn(d, f) :
                          /\ ~last.calls[i].ok
                          /\ NameInLedger(last.calls[i])
                          /\ last.calls[i].post.ledger = last.calls[i].pre.ledger
                          /\ ~FatalStatement(last.calls[i]) =>
                                Executed(last.calls[i]) = Ascending(NonBlank(last.calls[i].body))
                    /\ f \in ForeignFiles(d, ledger)

\* a second set in a row attempted a file recorded under another label, ran
\* its statements and was refused the ledger row
C22_Witness ==
    /\ last.op = "set"
    /\ last.prev = "set"
    /\ \E d \in Range(last.dirs) :
          \E f \in ForeignFiles(d, last.pre.ledger) :
              \E i \in CallsOn(d, f) :
                  /\ ~last.calls[i].ok
                  /\ ~FatalStatement(last.calls[i])
                  /\ Len(last.calls[i].trace) >= 2

\* the Applier was invoked on file f of directory d during call l
AttemptedIn(l, d, f) ==
    \E i \in 1..Len(l.calls) : l.calls[i].dir = d /\ l.calls[i].filename = f

\* C23: after a set(t) whose every apply succeeded, an immediately repeated
\* set(t) invokes the Applier on no file and leaves the ledger unchanged; after
\* a set(t) with a failed apply, the next set(t'), t' >= t, invokes the Applier
\* on exactly the files of the directories of step <= t' whose (filename,
\* label) pair is not recorded; no set invokes it on a recorded pair.
C23_ResumableReruns ==
    [][(last.op = "set" /\ last.ret = "True" /\ last'.op = "set") =>
          /\ ((\A c \in Calls : c.ok) /\ last'.arg = last.arg) =>
                last'.calls = <<>> /\ ledger' = ledger
          /\ ((\E c \in Calls : ~c.ok) /\ last'.arg >= last.arg
                 /\ \E e \in Range(last'.dirs) : StepOf(e) = last'.arg) =>
                \A d \in Range(last'.dirs) :
                    \A f \in Range(get_sql_files_in_dir(fs, d)) :
                        AttemptedIn(last', d, f) <=>
                            (StepOf(d) <= last'.arg /\ f \in PendingFiles(d, ledger))
          /\ \A i \in 1..Len(last'.calls) :
                LedgerRow(last'.calls[i]) \notin Range(ledger)]_vars

\* what get_all_data_directories finds in the data directory as it is now
FreshDirs == get_all_data_directories(fs)

\* C24: status and set work on the step directories and SQL files the data
\* directory holds at the call, whatever it held at init or at an earlier
\* call: status reports exactly the present directories with their present
\* file counts, set validates its target against the present step numbers and
\* invokes the Applier on present files only and on every pending present
\* file of the directories it walks.
C24_FreshDiscovery ==
    /\ (last.op = "status" /\ last.preConn /\ last.pre.hasLedger) =>
          IF FreshDirs = <<>> THEN last.ret = "False"
          ELSE /\ last.ret = "report"
               /\ [i \in 1..Len(last.report.directories) |->
                        last.report.directories[i].dir_name] = FreshDirs
               /\ \A i \in 1..Len(last.report.directories) :
                     last.report.directories[i].total =
                         Cardinality(Range(get_sql_files_in_dir(fs, FreshDirs[i])))
    /\ (last.op = "set" /\ last.preConn /\ last.pre.hasLedger) =>
          /\ last.ret = "True" <=> \E d \in Range(FreshDirs) : StepOf(d) = last.arg
          /\ \A c \in Calls :
                /\ c.dir \in Range(FreshDirs)
                /\ c.filename \in Range(get_sql_files_in_dir(fs, c.dir))
                /\ c.body = Body(fs, c.dir, c.filename)
          /\ last.ret = "True" =>
                \A d \in Range(FreshDirs) :
                    Reached(d) =>
                        \A f \in PendingFiles(d, last.pre.ledger) : AttemptedIn(last, d, f)

\* right after a change of the data directory, status reported a ledger row
\* whose directory is gone, and fewer applied files than the ledger holds
C24_Witness ==
    /\ last.op = "status"
    /\ last.prev = "edit"
    /\ last.ret = "report"
    /\ \E i \in 1..Len(ledger) : ledger[i].dir_prefix \notin Range(FreshDirs)
    /\ \E i \in 1..Len(last.report.directories) : last.report.directories[i].applied > 0

\* C25: reset() returns False and leaves the database as it was when no
\* connection is open or no step directory is discovered; when step
\* directories exist but none has step number 0, or the step-0 directory holds
\* no SQL file, it returns False with every table dropped and the ledger empty.
C25_ResetNotAtomic ==
    last.op = "reset" =>
        /\ (~last.preConn \/ last.dirs = <<>>) => last.ret = "False" /\ DB = last.pre
        /\ (/\ last.preConn
            /\ last.dirs # <<>>
            /\ \/ ZeroDirs = <<>>
               \/ get_sql_files_in_dir(fs, ZeroDirs[1]) = <<>>) =>
              /\ last.ret = "False"
              /\ tables = <<>>
              /\ rows = {}
              /\ hasLedger
              /\ ledger = <<>>

RECURSIVE SumApplied(_)
\* the sum of the applied counts of a status report's directories
SumApplied(directories) ==
    IF directories = <<>> THEN 0
    ELSE Head(directories).applied + SumApplied(Tail(directories))

\* C26: on a data directory that does not change, every report status()
\* returns has applied <= total for each directory, and the applied counts of
\* the directories add up to total_applied.
C26_StatusConsistency ==
    (last.op = "status" /\ last.ret = "report") =>
        /\ \A i \in 1..Len(last.report.directories) :
              last.report.directories[i].applied <= last.report.directories[i].total
        /\ SumApplied(last.report.directories) = last.report.total_applied

\* status() reported, after a set call, rows of several directories, one of
\* them with files still to apply
C26_Witness ==
    /\ last.op = "status"
    /\ last.prev = "set"
    /\ last.ret = "report"
    /\ \E i, j \in 1..Len(last.report.directories) :
          /\ i # j
          /\ last.report.directories[i].applied > 0
          /\ last.report.directories[j].applied > 0
          /\ last.report.directories[j].applied < last.report.directories[j].total

\* the recorded migration ids of the tool's history, in insertion order
RecordedIds == [i \in 1..Len(ledger) |-> ledger[i].migration_id]

\* C27: after any sequence of runs of migrate.py the recorded migration ids
\* are the id of the first migration of the file and its successors, without
\* a gap; a --next run applies at most the migration whose id is
\* max(applied) + 1, and nothing when the file has no such migration.
C27_ContiguousHistory ==
    /\ \A i \in 1..Len(ledger) : RecordedIds[i] = fs.migrations[1].id + (i - 1)
    /\ last.op = "next" =>
          LET applied == migrate_get_applied_migrations(last.pre)
          IN  /\ Len(last.calls) <= 1
              /\ \A c \in Calls : applied # <<>> /\ c.id = MaxId(applied) + 1
              /\ \A i \in 1..Len(Added) :
                    applied # <<>> /\ Added[i].migration_id = MaxId(applied) + 1
              /\ (applied # <<>> /\ \A i \in 1..Len(fs.migrations) :
                                        fs.migrations[i].id # MaxId(applied) + 1) =>
                    last.calls = <<>> /\ ledger = last.pre.ledger

\* a --next run recorded a migration on a history that begins at an id
\* other than 1, and there is no migration for a further --next
C27_Witness ==
    /\ last.op = "next"
    /\ Len(ledger) = Len(last.pre.ledger) + 1
    /\ Len(ledger) >= 2
    /\ RecordedIds[1] # 1
    /\ Len(ledger) < Len(fs.migrations)
    /\ \A i \in 1..Len(fs.migrations) :
          fs.migrations[i].id # RecordedIds[Len(ledger)] + 1

\* C28: --init applies a migration only on an empty history and changes
\* nothing on an initialized database; --next applies nothing while the
\* history is empty and the file has migrations; --status never changes the
\* history; a run applies at most one migration.
C28_GuardedTransitions ==
    /\ last.op = "init" =>
          /\ last.calls # <<>> => last.pre.ledger = <<>>
          /\ last.pre.ledger # <<>> => DB = last.pre
    /\ (last.op = "next" /\ last.pre.ledger = <<>> /\ fs.migrations # <<>>) =>
          /\ last.calls = <<>>
          /\ ledger = last.pre.ledger
          /\ tables = last.pre.tables
          /\ rows = last.pre.rows
    /\ last.op = "status" =>
          /\ last.calls = <<>>
          /\ ledger = last.pre.ledger
    /\ Len(last.calls) <= 1
    /\ Len(ledger) <= Len(last.pre.ledger) + 1

\* --init was run on a history of several migrations and left it alone
C28_Witness ==
    /\ last.op = "init"
    /\ Len(last.pre.ledger) >= 2
    /\ last.calls = <<>>
    /\ ledger = last.pre.ledger

====
